---- MODULE Spec2Model ----
(***************************************************************************)
(* State-machine model of server.js: the POST /api/video-info and          *)
(* GET /api/download handlers (URL check, getInfo retry loop, Download     *)
(* record, format selection, stream relay) and the Download schema.        *)
(*                                                                         *)
(* JavaScript values: a string that the code inspects character by         *)
(* character (title, qualityLabel) is a sequence of one-character strings; *)
(* a value that may be undefined, and a number that may be NaN, is a       *)
(* sequence of length 0 (undefined / NaN) or 1 (the value).                *)
(***************************************************************************)
EXTENDS Integers, Sequences, FiniteSets, TLC

\* ------------------------------------------------------------- bounds
\* data events one remote stream delivers at most
MaxChunks == 2
\* length of the descriptor lists the selection is explored on
MaxFormats == 3
\* length of the titles the sanitization is explored on
MaxTitleLen == 3
\* largest number of seconds of the contiguous range formatDuration is explored on
MaxSeconds == 7300

\* ------------------------------------------------- JavaScript values
None == <<>>
Some(x) == <<x>>
NaN == <<>>
Num(n) == <<n>>

Range(s) == {s[i] : i \in 1..Len(s)}

RECURSIVE SeqsUpTo(_, _)
\* all sequences over S of length at most n
SeqsUpTo(S, n) ==
  IF n = 0 THEN {<<>>}
  ELSE LET shorter == SeqsUpTo(S, n - 1)
       IN  shorter \cup {Append(s, x) : s \in {t \in shorter : Len(t) = n - 1}, x \in S}

DigitChars == {"0", "1", "2", "3", "4", "5", "6", "7", "8", "9"}
LetterChars == {"a", "b", "d", "e", "h", "i", "o", "p", "v"}
WhitespaceChars == {" "}

DigitVal(c) ==
  CASE c = "0" -> 0 [] c = "1" -> 1 [] c = "2" -> 2 [] c = "3" -> 3 [] c = "4" -> 4
    [] c = "5" -> 5 [] c = "6" -> 6 [] c = "7" -> 7 [] c = "8" -> 8 [] c = "9" -> 9

RECURSIVE LeadingDigits(_, _, _)
\* value of the digit run of s that starts at position i, acc the value so far
LeadingDigits(s, i, acc) ==
  IF i > Len(s) \/ s[i] \notin DigitChars THEN acc
  ELSE LeadingDigits(s, i + 1, 10 * acc + DigitVal(s[i]))

RECURSIVE SkipWhitespace(_, _)
SkipWhitespace(s, i) ==
  IF i <= Len(s) /\ s[i] \in WhitespaceChars THEN SkipWhitespace(s, i + 1) ELSE i

\* parseInt(string): leading whitespace skipped, an optional sign, then the
\* longest run of decimal digits; NaN when there is no digit there.
parseInt(s) ==
  LET i == SkipWhitespace(s, 1)
      neg == i <= Len(s) /\ s[i] = "-"
      j == IF i <= Len(s) /\ s[i] \in {"-", "+"} THEN i + 1 ELSE i
  IN  IF j > Len(s) \/ s[j] \notin DigitChars THEN NaN
      ELSE LET v == LeadingDigits(s, j, 0) IN Num(IF neg THEN 0 - v ELSE v)

\* x - y on numbers that may be NaN
NumSub(x, y) == IF x = NaN \/ y = NaN THEN NaN ELSE Num(x[1] - y[1])

\* ToNumber of a property that may be undefined: undefined -> NaN
ToNumber(opt) == IF opt = None THEN NaN ELSE Num(opt[1])

\* truthiness of a string property that may be undefined
Truthy(opt) == opt # None /\ opt[1] # <<>>

\* ------------------------------------------- Array.prototype.sort (V8)
\* The comparator's result as the sort reads it: NaN counts as +0.
SortCompare(cmp, x, y) == LET v == cmp[<<x, y>>] IN IF v = NaN THEN 0 ELSE v[1]

RECURSIVE RunEnd(_, _, _, _)
\* last index of the run that starts at 1, idx the next element to look at
RunEnd(a, cmp, isDescending, idx) ==
  IF idx > Len(a) THEN Len(a)
  ELSE LET order == SortCompare(cmp, a[idx], a[idx - 1])
       IN  IF (isDescending /\ order >= 0) \/ (~isDescending /\ order < 0)
           THEN idx - 1
           ELSE RunEnd(a, cmp, isDescending, idx + 1)

ReversePrefix(a, n) == [i \in 1..Len(a) |-> IF i <= n THEN a[n + 1 - i] ELSE a[i]]

\* the array with its initial run made ascending, and the run's length
CountAndMakeRun(a, cmp) ==
  LET isDescending == SortCompare(cmp, a[2], a[1]) < 0
      runLength == RunEnd(a, cmp, isDescending, 3)
  IN  [array |-> IF isDescending THEN ReversePrefix(a, runLength) ELSE a,
       runLength |-> runLength]

RECURSIVE BinarySearch(_, _, _, _, _)
\* the insertion point of pivot in a[left .. right-1]
BinarySearch(a, cmp, pivot, left, right) ==
  IF left >= right THEN left
  ELSE LET mid == left + ((right - left) \div 2)
       IN  IF SortCompare(cmp, pivot, a[mid]) < 0
           THEN BinarySearch(a, cmp, pivot, left, mid)
           ELSE BinarySearch(a, cmp, pivot, mid + 1, right)

InsertAt(a, from, to) ==
  [i \in 1..Len(a) |->
     IF i < to \/ i > from THEN a[i]
     ELSE IF i = to THEN a[from] ELSE a[i - 1]]

RECURSIVE BinaryInsertionSort(_, _, _)
\* a[1 .. start-1] is sorted; insert a[start], a[start+1], ... in turn
BinaryInsertionSort(a, cmp, start) ==
  IF start > Len(a) THEN a
  ELSE LET to == BinarySearch(a, cmp, a[start], 1, start)
       IN  BinaryInsertionSort(InsertAt(a, start, to), cmp, start + 1)

\* Array.prototype.sort(comparefn) as V8 runs it on an array shorter than 64
\* elements: one run is counted, the rest is inserted by binary insertion.
ArraySort(a, cmp) ==
  IF Len(a) < 2 THEN a
  ELSE LET run == CountAndMakeRun(a, cmp)
       IN  BinaryInsertionSort(run.array, cmp, run.runLength + 1)

\* ---------------------------------------------------- format selection
\* line 160-162
IsAudioOnly(f) == f.hasAudio /\ ~f.hasVideo

\* line 165: (a, b) => b.audioBitrate - a.audioBitrate
AudioCompare(a, b) == NumSub(ToNumber(b.audioBitrate), ToNumber(a.audioBitrate))

\* lines 160-169: selectedAudioFormat, None for null
SelectAudio(formats) ==
  LET audioFormats == SelectSeq(formats, IsAudioOnly)
      cmp == [p \in Range(audioFormats) \X Range(audioFormats) |-> AudioCompare(p[1], p[2])]
      sorted == ArraySort(audioFormats, cmp)
  IN  IF Len(sorted) > 0 THEN Some(sorted[1]) ELSE None

\* line 237-239
IsMuxedMp4(f) == f.container = "mp4" /\ f.hasVideo /\ f.hasAudio

\* lines 243-244: a.qualityLabel ? parseInt(a.qualityLabel) : 0
Resolution(f) == IF Truthy(f.qualityLabel) THEN parseInt(f.qualityLabel[1]) ELSE Num(0)

\* lines 242-246; format is the request's format parameter (None when omitted)
VideoCompare(format, a, b) ==
  IF format = Some("highest")
  THEN NumSub(Resolution(b), Resolution(a))
  ELSE NumSub(Resolution(a), Resolution(b))

\* lines 237-249: selectedFormat, None for null
SelectVideo(formats, format) ==
  LET muxed == SelectSeq(formats, IsMuxedMp4)
      cmp == [p \in Range(muxed) \X Range(muxed) |-> VideoCompare(format, p[1], p[2])]
      sorted == ArraySort(muxed, cmp)
  IN  IF Len(sorted) > 0 THEN Some(sorted[1]) ELSE None

\* line 233-234
QualityOption(format) == IF format = Some("highest") THEN "highestvideo" ELSE "lowestvideo"

\* ------------------------------------------------- title sanitization
WordChars == LetterChars \cup DigitChars \cup {"_"}

\* kept by .replace(/[^\w\s-]/gi, "")
KeptChar(c) == c \in WordChars \/ c \in WhitespaceChars \/ c = "-"

RECURSIVE TrimStart(_)
TrimStart(s) == IF s # <<>> /\ Head(s) \in WhitespaceChars THEN TrimStart(Tail(s)) ELSE s

RECURSIVE TrimEnd(_)
TrimEnd(s) ==
  IF s # <<>> /\ s[Len(s)] \in WhitespaceChars THEN TrimEnd(SubSeq(s, 1, Len(s) - 1)) ELSE s

Trim(s) == TrimEnd(TrimStart(s))

\* line 137: title.replace(/[^\w\s-]/gi, "").trim()
Sanitize(title) == Trim(SelectSeq(title, KeptChar))

\* lines 150 and 218: `${videoTitle}.mp3` / `${videoTitle}.mp4`
FileName(videoTitle, format) ==
  videoTitle \o (IF format = Some("audio") THEN <<".", "m", "p", "3">> ELSE <<".", "m", "p", "4">>)

\* ------------------------------------------------------ formatDuration
DigitChar(d) ==
  CASE d = 0 -> "0" [] d = 1 -> "1" [] d = 2 -> "2" [] d = 3 -> "3" [] d = 4 -> "4"
    [] d = 5 -> "5" [] d = 6 -> "6" [] d = 7 -> "7" [] d = 8 -> "8" [] d = 9 -> "9"

RECURSIVE NumberToString(_)
\* n.toString() of a non-negative integer
NumberToString(n) ==
  IF n < 10 THEN <<DigitChar(n)>>
  ELSE Append(NumberToString(n \div 10), DigitChar(n % 10))

RECURSIVE PadStart(_, _, _)
\* s.padStart(len, c)
PadStart(s, len, c) == IF Len(s) >= len THEN s ELSE PadStart(<<c>> \o s, len, c)

\* formatDuration with its padStart calls left out
formatDurationUnpadded(seconds) ==
  LET hours == seconds \div 3600
      minutes == (seconds % 3600) \div 60
      secs == seconds % 60
  IN  IF hours > 0
      THEN NumberToString(hours) \o <<":">> \o NumberToString(minutes) \o <<":">>
             \o NumberToString(secs)
      ELSE NumberToString(minutes) \o <<":">> \o NumberToString(secs)

\* lines 308-320, on a non-negative integer (Math.floor of the quotient is \div)
formatDuration(seconds) ==
  LET hours == seconds \div 3600
      minutes == (seconds % 3600) \div 60
      secs == seconds % 60
  IN  IF hours > 0
      THEN NumberToString(hours) \o <<":">> \o PadStart(NumberToString(minutes), 2, "0")
             \o <<":">> \o PadStart(NumberToString(secs), 2, "0")
      ELSE NumberToString(minutes) \o <<":">> \o PadStart(NumberToString(secs), 2, "0")

\* ------------------------------------------------------------ inputs
Requests == {"r1", "r2"}

ValidUrls == {"https://youtu.be/dQw4w9WgXcQ"}
Urls == ValidUrls \cup {"not-a-url"}

\* line 60 / 111: ytdl.validateURL(url)
validateURL(url) == url \in ValidUrls

\* the format query parameter: omitted, the three classes, anything else
FormatParams == {None, Some("highest"), Some("lowest"), Some("audio"), Some("4k")}

SignInMessage == "Sign in to confirm you're not a bot"
ParseMessage == "Could not extract functions"
AbortMessage == "The operation was aborted"
OtherMessage == "Status code: 410"
ErrorMessages == {SignInMessage, ParseMessage, AbortMessage, OtherMessage}

\* line 74 / 125: error.message.includes("Sign in to confirm")
IncludesSignIn(message) == message = SignInMessage

Descriptor(itag, container, hasVideo, hasAudio, qualityLabel, audioBitrate) ==
  [itag |-> itag, container |-> container, hasVideo |-> hasVideo, hasAudio |-> hasAudio,
   qualityLabel |-> qualityLabel, audioBitrate |-> audioBitrate]

Label360 == Some(<<"3", "6", "0", "p">>)
Label720 == Some(<<"7", "2", "0", "p">>)
Label720p60 == Some(<<"7", "2", "0", "p", "6", "0">>)
Label1080 == Some(<<"1", "0", "8", "0", "p">>)
LabelHd == Some(<<"h", "d">>)

Muxed360 == Descriptor(18, "mp4", TRUE, TRUE, Label360, Some(96))
Muxed720 == Descriptor(22, "mp4", TRUE, TRUE, Label720, Some(192))
Muxed720p60 == Descriptor(298, "mp4", TRUE, TRUE, Label720p60, Some(192))
MuxedNoLabel == Descriptor(59, "mp4", TRUE, TRUE, None, Some(96))
MuxedHd == Descriptor(78, "mp4", TRUE, TRUE, LabelHd, Some(96))
MuxedWebm1080 == Descriptor(46, "webm", TRUE, TRUE, Label1080, Some(192))
VideoOnly1080 == Descriptor(137, "mp4", TRUE, FALSE, Label1080, None)
Audio128 == Descriptor(140, "mp4", FALSE, TRUE, None, Some(128))
Audio128Webm == Descriptor(171, "webm", FALSE, TRUE, None, Some(128))
Audio160 == Descriptor(251, "webm", FALSE, TRUE, None, Some(160))
AudioNoBitrate == Descriptor(600, "webm", FALSE, TRUE, None, None)

Descriptors ==
  {Muxed360, Muxed720, Muxed720p60, MuxedNoLabel, MuxedHd, MuxedWebm1080, VideoOnly1080,
   Audio128, Audio128Webm, Audio160, AudioNoBitrate}

NoRepeat(s) == \A i, j \in 1..Len(s) : i # j => s[i] # s[j]

\* info.formats as the upstream may report it: up to MaxFormats distinct descriptors
FormatLists == {s \in SeqsUpTo(Descriptors, MaxFormats) : NoRepeat(s)}

TitleChars == {"a", " ", "-", "!"}
Titles == SeqsUpTo(TitleChars, MaxTitleLen)

\* what getInfo resolves with in the handler runs
HandlerInfos ==
  {[title |-> <<"a", "!", " ">>, formats |-> <<Muxed360, Audio128, Muxed720>>],
   [title |-> <<"a", "!", " ">>, formats |-> <<>>],
   [title |-> <<"!", "!", "!">>, formats |-> <<Muxed360, Audio128, Muxed720>>],
   [title |-> <<>>, formats |-> <<Muxed360, Audio128, Muxed720>>]}

\* ------------------------------------------------------------- state
VARIABLES
  req,       \* per request: endpoint, url and format parameter
  pc,        \* per request: where its handler is suspended
  retries,   \* per request: the loop's `retries`
  pending,   \* per request: the getInfo call in flight, and whether it ever settles
  calls,     \* per request: getInfo calls issued so far
  outcomes,  \* per request: how the settled getInfo calls ended, in order
  delays,    \* per request: the setTimeout delays of the loop, in order
  info,      \* per request: the loop's `info`
  doc,       \* per request: the Download document built at line 140
  thrown,    \* per request: the error that reached the handler's catch
  res,       \* per request: the response object
  stream,    \* per request: the remote stream piped into res
  store,     \* the downloads collection, in insertion order
  created,   \* Download documents constructed so far (ObjectId / Date.now source)
  fnIn,      \* argument of the function under study (function specifications only)
  fnOut      \* its result

vars ==
  <<req, pc, retries, pending, calls, outcomes, delays, info, doc, thrown, res, stream,
    store, created, fnIn, fnOut>>

handlerVars ==
  <<req, pc, retries, pending, calls, outcomes, delays, info, doc, thrown, res, stream,
    store, created>>

\* a loop that starts with one attempt more
MaxRetriesPlusOne == 3 + 1

\* the loop condition never cutting the retries off: the rethrow without its
\* test of retries === 1
ShouldRethrowOtherOnly(retriesNow, message) == ~IncludesSignIn(message)

\* Resilient Resolver of the specification (4.1): attempt cycles and client
\* identities. server.js has neither.
MaxAttemptCycles == 3
IdentityCount == 3

\* line 65 / 116: let retries = 3
MaxRetries == 3
\* line 82 / 133: 2000 * Math.pow(2, 3 - retries)
BackoffBase == 2000

RECURSIVE Pow2(_)
Pow2(n) == IF n <= 0 THEN 1 ELSE 2 * Pow2(n - 1)

\* line 82 / 133, evaluated after retries--
BackoffDelay(retriesLeft) == BackoffBase * Pow2(3 - retriesLeft)

NoRequest == [endpoint |-> "none", url |-> "", format |-> None]
NoStream == [state |-> "none", via |-> "none", quality |-> "none", format |-> None]

\* a fresh ServerResponse: status 200, nothing sent
NewResponse ==
  [statusCode |-> 200, headersSent |-> FALSE, contentType |-> None, fileName |-> None,
   noCache |-> FALSE, json |-> <<>>, bytes |-> 0, ended |-> FALSE]

\* res.status(code).json(body): headers and body go out and the response ends
SendJson(r, code, body) ==
  [r EXCEPT !.statusCode = code, !.headersSent = TRUE,
            !.contentType = Some("application/json"),
            !.json = Append(@, body), !.ended = TRUE]

\* pipe: res.write(chunk); the first write sends the headers
WriteChunk(r) == [r EXCEPT !.headersSent = TRUE, !.bytes = @ + 1]

\* pipe: the source's 'end' calls res.end()
EndResponse(r) == [r EXCEPT !.headersSent = TRUE, !.ended = TRUE]

InitHandlers ==
  /\ req = [r \in Requests |-> NoRequest]
  /\ pc = [r \in Requests |-> "idle"]
  /\ retries = [r \in Requests |-> 0]
  /\ pending = [r \in Requests |-> "none"]
  /\ calls = [r \in Requests |-> 0]
  /\ outcomes = [r \in Requests |-> <<>>]
  /\ delays = [r \in Requests |-> <<>>]
  /\ info = [r \in Requests |-> None]
  /\ doc = [r \in Requests |-> None]
  /\ thrown = [r \in Requests |-> None]
  /\ res = [r \in Requests |-> NewResponse]
  /\ stream = [r \in Requests |-> NoStream]
  /\ store = <<>>
  /\ created = 0

NoFn == [op |-> "none", formats |-> <<>>, format |-> None, title |-> <<>>, seconds |-> 0]
NoOut == [done |-> FALSE, selected |-> None, text |-> <<>>]

Init ==
  /\ InitHandlers
  /\ fnIn = NoFn
  /\ fnOut = NoOut

\* ------------------------------------------------------ the handlers
\* `retries` declared once for the module instead of once per request
SetRetriesShared(r, value) == [q \in Requests |-> value]

\* lines 65 and 79 / 116 and 130: `retries` is a local of the request's handler
SetRetries(r, value) == [retries EXCEPT ![r] = value]

\* the check of line 60 / 111 left out
UrlNeverRejected(url) == FALSE

\* line 60 / 111: the request is answered 400 before anything else
UrlRejected(url) == ~validateURL(url)

\* the rethrow of line 74 / 125 without its test of the message
ShouldRethrowLastOnly(retriesNow, message) == retriesNow = 1

\* line 74 / 125: retries === 1 || !error.message.includes("Sign in to confirm")
ShouldRethrow(retriesNow, message) == retriesNow = 1 \/ ~IncludesSignIn(message)

\* Error Classifier of the specification (4.3): first match wins. The
\* handlers of server.js never call it.
Classify(message) ==
  IF message = ParseMessage THEN "PageStructureChanged"
  ELSE IF message = AbortMessage THEN "UpstreamTimeout"
  ELSE "Unknown"

\* the status the classifier would give the catch's response
ClassifiedStatus(message) ==
  IF Classify(message) = "PageStructureChanged" THEN 503
  ELSE IF Classify(message) = "UpstreamTimeout" THEN 504
  ELSE 500

\* the catch answering with the classified status
CatchStatusClassified(endpoint, message) == ClassifiedStatus(message)

\* lines 101-104 and 297-304: the status of the catch's response
CatchStatus(endpoint, message) == 500

\* lines 103 and 302: the catch's body
CatchBody(endpoint, message) ==
  IF endpoint = "info"
  THEN [message |-> <<"Failed to fetch video information">>]
  ELSE [message |-> <<"Failed to download video: ", message>>]

\* the handler's catch: lines 101-104 (info), 297-304 (download, only if
\* the headers are not sent yet)
Catch(r, stage, message) ==
  /\ thrown' = [thrown EXCEPT ![r] = Some([stage |-> stage, message |-> message])]
  /\ res' = [res EXCEPT ![r] =
               IF req[r].endpoint = "info" \/ ~res[r].headersSent
               THEN SendJson(@, CatchStatus(req[r].endpoint, message),
                             CatchBody(req[r].endpoint, message))
               ELSE @]
  /\ pc' = [pc EXCEPT ![r] = "done"]

\* line 71 / 122: one getInfo call goes out; the upstream may never answer it
CallGetInfo(r) ==
  /\ calls' = [calls EXCEPT ![r] = @ + 1]
  /\ \E p \in {"settles", "never"} : pending' = [pending EXCEPT ![r] = p]

\* lines 56-71 / 107-122: the handler up to its first await
Arrive(r, endpoint, url, format) ==
  /\ pc[r] = "idle"
  /\ req' = [req EXCEPT ![r] = [endpoint |-> endpoint, url |-> url, format |-> format]]
  /\ IF UrlRejected(url)
     THEN /\ res' = [res EXCEPT ![r] = SendJson(@, 400, [message |-> <<"Invalid YouTube URL">>])]
          /\ pc' = [pc EXCEPT ![r] = "done"]
          /\ UNCHANGED <<retries, pending, calls>>
     ELSE /\ retries' = SetRetries(r, MaxRetries)
          /\ CallGetInfo(r)
          /\ pc' = [pc EXCEPT ![r] = "awaitInfo"]
          /\ UNCHANGED res
  /\ UNCHANGED <<outcomes, delays, info, doc, thrown, stream, store, created, fnIn, fnOut>>

\* app.post("/api/video-info"), lines 56-71
PostVideoInfo(r) == \E url \in Urls : Arrive(r, "info", url, None)

\* app.get("/api/download"), lines 107-122
GetDownload(r) == \E url \in Urls, format \in FormatParams : Arrive(r, "download", url, format)

\* lines 71-72 and 87-100: getInfo resolves in the info handler
VideoInfoResolved(r) ==
  /\ pc[r] = "awaitInfo" /\ pending[r] = "settles" /\ req[r].endpoint = "info"
  /\ \E i \in HandlerInfos :
       /\ info' = [info EXCEPT ![r] = Some(i)]
       /\ res' = [res EXCEPT ![r] =
                    SendJson(@, 200, [url |-> req[r].url, title |-> i.title,
                                      formats |-> i.formats])]
  /\ outcomes' = [outcomes EXCEPT ![r] = Append(@, "ok")]
  /\ pending' = [pending EXCEPT ![r] = "none"]
  /\ pc' = [pc EXCEPT ![r] = "done"]
  /\ UNCHANGED <<req, retries, calls, delays, doc, thrown, stream, store, created, fnIn, fnOut>>

\* lines 140-145 with the schema's defaults (lines 337-345)
NewDownload(id, url, title, format, now) ==
  [id |-> id, videoUrl |-> url, videoTitle |-> title,
   format |-> IF format = None THEN Some("highest") ELSE format,
   downloadDate |-> now]

\* lines 328-341: required videoUrl and videoTitle, format within the enum
ValidDownload(d) ==
  /\ d.videoUrl # ""
  /\ d.videoTitle # <<>>
  /\ d.format \in {Some("highest"), Some("lowest"), Some("audio")}

\* lines 122-123 and 137-146: getInfo resolves in the download handler,
\* the document is built and save() is awaited
DownloadResolved(r) ==
  /\ pc[r] = "awaitInfo" /\ pending[r] = "settles" /\ req[r].endpoint = "download"
  /\ \E i \in HandlerInfos :
       /\ info' = [info EXCEPT ![r] = Some(i)]
       /\ doc' = [doc EXCEPT ![r] =
                    Some(NewDownload(created + 1, req[r].url, i.title, req[r].format,
                                     created + 1))]
  /\ created' = created + 1
  /\ outcomes' = [outcomes EXCEPT ![r] = Append(@, "ok")]
  /\ pending' = [pending EXCEPT ![r] = "none"]
  /\ pc' = [pc EXCEPT ![r] = "awaitSave"]
  /\ UNCHANGED <<req, retries, calls, delays, thrown, res, stream, store, fnIn, fnOut>>

\* lines 73-84 / 124-135: getInfo rejects
GetInfoRejected(r) ==
  /\ pc[r] = "awaitInfo" /\ pending[r] = "settles"
  /\ \E message \in ErrorMessages :
       /\ outcomes' = [outcomes EXCEPT ![r] = Append(@, message)]
       /\ IF ShouldRethrow(retries[r], message)
          THEN /\ Catch(r, "resolve", message)
               /\ UNCHANGED <<retries, delays>>
          ELSE /\ retries' = SetRetries(r, retries[r] - 1)
               /\ delays' = [delays EXCEPT ![r] = Append(@, BackoffDelay(retries[r] - 1))]
               /\ pc' = [pc EXCEPT ![r] = "awaitBackoff"]
               /\ UNCHANGED <<thrown, res>>
  /\ pending' = [pending EXCEPT ![r] = "none"]
  /\ UNCHANGED <<req, calls, info, doc, stream, store, created, fnIn, fnOut>>

\* lines 81-83 then 68-71 / 132-134 then 119-122: the timer fires, the loop
\* tests retries > 0 and calls getInfo again
BackoffElapsed(r) ==
  /\ pc[r] = "awaitBackoff"
  /\ IF retries[r] > 0
     THEN /\ CallGetInfo(r)
          /\ pc' = [pc EXCEPT ![r] = "awaitInfo"]
     ELSE /\ pc' = [pc EXCEPT ![r] = "afterLoop"]
          /\ UNCHANGED <<pending, calls>>
  /\ UNCHANGED <<req, retries, outcomes, delays, info, doc, thrown, res, stream, store,
                 created, fnIn, fnOut>>

\* save() that resolves without inserting
InsertNothing(collection, d) == collection

\* save() that overwrites the collection
InsertReplacing(collection, d) == <<d>>

\* line 146: download.save() inserts the document into the collection
Insert(collection, d) == Append(collection, d)

\* lines 150-157 / 218-230: the headers set (not yet sent) for a download
SetDownloadHeaders(r, videoTitle, format) ==
  [r EXCEPT !.fileName = Some(FileName(videoTitle, format)),
            !.contentType = Some(IF format = Some("audio") THEN "audio/mpeg" ELSE "video/mp4"),
            !.noCache = (format # Some("audio"))]

\* lines 159-181 / 232-260: the remote stream opened for a download
OpenStream(formats, format) ==
  LET selected == IF format = Some("audio") THEN SelectAudio(formats)
                  ELSE SelectVideo(formats, format)
  IN  [state |-> "open",
       via |-> IF selected # None THEN "downloadFromInfo" ELSE "ytdl",
       quality |-> IF selected # None THEN "none"
                   ELSE IF format = Some("audio") THEN "highestaudio"
                   ELSE QualityOption(format),
       format |-> selected]

\* line 146: save() validates the document (lines 328-341) and hands it to
\* the store; the insert is committed there while the handler still awaits
SaveCommitted(r) ==
  /\ pc[r] = "awaitSave"
  /\ ValidDownload(doc[r][1])
  /\ store' = Insert(store, doc[r][1])
  /\ pc' = [pc EXCEPT ![r] = "awaitSaveAck"]
  /\ UNCHANGED <<req, retries, pending, calls, outcomes, delays, info, doc, thrown, res,
                 stream, created, fnIn, fnOut>>

\* line 146 then 297-304: save() rejects, on a validation error or because
\* the store cannot be reached; nothing is inserted
SaveRejected(r) ==
  /\ pc[r] = "awaitSave"
  /\ \E storeOk \in BOOLEAN :
       /\ ~(ValidDownload(doc[r][1]) /\ storeOk)
       /\ Catch(r, "save",
                IF ValidDownload(doc[r][1]) THEN "store unavailable"
                ELSE "Download validation failed")
  /\ UNCHANGED <<req, retries, pending, calls, outcomes, delays, info, doc, stream, store,
                 created, fnIn, fnOut>>

\* lines 148-215 / 216-295: save() has resolved; the headers are set, the
\* format chosen, the remote stream opened and piped into res
SaveResolved(r) ==
  /\ pc[r] = "awaitSaveAck"
  /\ res' = [res EXCEPT ![r] =
               SetDownloadHeaders(@, Sanitize(info[r][1].title), req[r].format)]
  /\ stream' = [stream EXCEPT ![r] = OpenStream(info[r][1].formats, req[r].format)]
  /\ pc' = [pc EXCEPT ![r] = "streaming"]
  /\ UNCHANGED <<req, retries, pending, calls, outcomes, delays, info, doc, thrown, store,
                 created, fnIn, fnOut>>

\* lines 204-206 / 284-286 and pipe: a chunk arrives and is written to res
StreamData(r) ==
  /\ pc[r] = "streaming" /\ stream[r].state = "open"
  /\ res[r].bytes < MaxChunks
  /\ res' = [res EXCEPT ![r] = WriteChunk(@)]
  /\ UNCHANGED <<req, pc, retries, pending, calls, outcomes, delays, info, doc, thrown,
                 stream, store, created, fnIn, fnOut>>

\* pipe (lines 215 / 295): the remote stream ends, pipe ends res
StreamEnd(r) ==
  /\ pc[r] = "streaming" /\ stream[r].state = "open"
  /\ stream' = [stream EXCEPT ![r].state = "ended"]
  /\ res' = [res EXCEPT ![r] = EndResponse(@)]
  /\ pc' = [pc EXCEPT ![r] = "done"]
  /\ UNCHANGED <<req, retries, pending, calls, outcomes, delays, info, doc, thrown, store,
                 created, fnIn, fnOut>>

\* the 'error' listener without its test of res.headersSent
OnStreamErrorUnguarded(r, format) ==
  [r EXCEPT !.statusCode = 500, !.headersSent = TRUE,
            !.json = Append(@, [message |-> <<"Failed to download">>]), !.ended = TRUE]

\* lines 208-213 / 288-293: what the 'error' listener does to res
OnStreamError(r, format) ==
  IF ~r.headersSent
  THEN SendJson(r, 500, [message |-> <<IF format = Some("audio")
                                        THEN "Failed to download audio"
                                        ELSE "Failed to download video">>])
  ELSE r

\* lines 208-213 / 288-293: the remote stream emits 'error'; pipe does
\* nothing to res on a source error
StreamError(r) ==
  /\ pc[r] = "streaming" /\ stream[r].state = "open"
  /\ stream' = [stream EXCEPT ![r].state = "errored"]
  /\ res' = [res EXCEPT ![r] = OnStreamError(@, req[r].format)]
  /\ pc' = [pc EXCEPT ![r] = "done"]
  /\ UNCHANGED <<req, retries, pending, calls, outcomes, delays, info, doc, thrown, store,
                 created, fnIn, fnOut>>

Step(r) ==
  \/ PostVideoInfo(r)
  \/ GetDownload(r)
  \/ VideoInfoResolved(r)
  \/ DownloadResolved(r)
  \/ GetInfoRejected(r)
  \/ BackoffElapsed(r)
  \/ SaveCommitted(r)
  \/ SaveRejected(r)
  \/ SaveResolved(r)
  \/ StreamData(r)
  \/ StreamEnd(r)
  \/ StreamError(r)

Next == \E r \in Requests : Step(r)

Spec == Init /\ [][Next]_vars

\* one request alone, every step of the handler and of the streams it waits
\* for eventually taken; a getInfo call marked "never" has no step to take
NextSolo == Step("r1")

FairSpec == Init /\ [][NextSolo]_vars /\ WF_vars(NextSolo)

\* ------------------------------------- the functions on their own
\* The selection and the sanitization applied to every input within the
\* bounds, outside any request.
\* lengthSeconds values: a contiguous range across the one-hour and two-hour
\* marks, and the marks where the hours get a second and a third digit
DurationInputs == (0..MaxSeconds) \cup {35999, 36000, 86399, 359999, 360000}

FnInputs ==
  {[op |-> "selectAudio", formats |-> f, format |-> Some("audio"), title |-> <<>>, seconds |-> 0] :
     f \in FormatLists}
  \cup {[op |-> "selectVideo", formats |-> f, format |-> q, title |-> <<>>, seconds |-> 0] :
          f \in FormatLists, q \in FormatParams \ {Some("audio")}}
  \cup {[op |-> "sanitize", formats |-> <<>>, format |-> q, title |-> t, seconds |-> 0] :
          t \in Titles, q \in {Some("audio"), Some("highest")}}
  \cup {[op |-> "formatDuration", formats |-> <<>>, format |-> None, title |-> <<>>,
          seconds |-> n] : n \in DurationInputs}

InitFn ==
  /\ InitHandlers
  /\ fnIn \in FnInputs
  /\ fnOut = NoOut

\* lines 160-169
ApplySelectAudio ==
  /\ fnIn.op = "selectAudio" /\ ~fnOut.done
  /\ fnOut' = [done |-> TRUE, selected |-> SelectAudio(fnIn.formats), text |-> <<>>]
  /\ UNCHANGED <<handlerVars, fnIn>>

\* lines 237-249
ApplySelectVideo ==
  /\ fnIn.op = "selectVideo" /\ ~fnOut.done
  /\ fnOut' = [done |-> TRUE, selected |-> SelectVideo(fnIn.formats, fnIn.format),
               text |-> <<>>]
  /\ UNCHANGED <<handlerVars, fnIn>>

\* lines 137 and 150 / 218
ApplySanitize ==
  /\ fnIn.op = "sanitize" /\ ~fnOut.done
  /\ fnOut' = [done |-> TRUE, selected |-> None,
               text |-> FileName(Sanitize(fnIn.title), fnIn.format)]
  /\ UNCHANGED <<handlerVars, fnIn>>

\* line 92 and lines 308-320
ApplyFormatDuration ==
  /\ fnIn.op = "formatDuration" /\ ~fnOut.done
  /\ fnOut' = [done |-> TRUE, selected |-> None, text |-> formatDuration(fnIn.seconds)]
  /\ UNCHANGED <<handlerVars, fnIn>>

NextFn == ApplySelectAudio \/ ApplySelectVideo \/ ApplySanitize \/ ApplyFormatDuration

SpecFn == InitFn /\ [][NextFn]_vars

\* ------------------------------------------------------------ claims
LastOutcome(r) == outcomes[r][Len(outcomes[r])]
Resolved(r) == info[r] # None
ResolutionFailed(r) == thrown[r] # None /\ thrown[r][1].stage = "resolve"
EarlierAllSignIn(r) == \A i \in 1..(Len(outcomes[r]) - 1) : IncludesSignIn(outcomes[r][i])
\* the records of the store that are request r's document
RecordsOf(r) == {i \in 1..Len(store) : doc[r] # None /\ store[i].id = doc[r][1].id}
StreamStarted(r) ==
  \/ res[r].fileName # None
  \/ res[r].noCache
  \/ stream[r].state # "none"
  \/ res[r].bytes > 0

\* C1 as stated: a resolution returns the first success within the budget
\* and calls no further, and it fails only when every call of the budget
\* failed, with the last error, whatever the failures were.
C1_RetryEveryFailure ==
  \A r \in Requests :
    /\ Resolved(r) =>
         /\ LastOutcome(r) = "ok"
         /\ calls[r] = Len(outcomes[r]) /\ calls[r] <= MaxRetries
    /\ ResolutionFailed(r) =>
         /\ Len(outcomes[r]) = MaxRetries
         /\ \A i \in 1..Len(outcomes[r]) : outcomes[r][i] # "ok"
         /\ thrown[r][1].message = LastOutcome(r)

\* C1 amended: after failures that all carry the "Sign in to confirm"
\* signature a success within the budget of 3 calls is returned and no
\* further call is made; a failure with any other message ends the
\* resolution at once with that error; when the budget is used up the
\* resolution fails with the last error observed.
C1_RetrySignInOnly ==
  \A r \in Requests :
    /\ calls[r] <= MaxRetries
    /\ Resolved(r) =>
         /\ LastOutcome(r) = "ok"
         /\ calls[r] = Len(outcomes[r])
         /\ EarlierAllSignIn(r)
    /\ ResolutionFailed(r) =>
         /\ LastOutcome(r) # "ok"
         /\ thrown[r][1].message = LastOutcome(r)
         /\ calls[r] = Len(outcomes[r])
         /\ EarlierAllSignIn(r)
         /\ (Len(outcomes[r]) = MaxRetries \/ ~IncludesSignIn(LastOutcome(r)))

\* two sign-in failures, then a success on the third call; and a resolution
\* ended by the first failure of another kind
C1_Witness ==
  /\ \E r \in Requests : Resolved(r) /\ Len(outcomes[r]) = MaxRetries
  /\ \E r \in Requests : ResolutionFailed(r) /\ Len(outcomes[r]) = 1

C3_InvalidUrlRejectedFirst ==
  /\ \A r \in Requests :
       (req[r].endpoint # "none" /\ ~validateURL(req[r].url)) =>
         /\ res[r].statusCode = 400 /\ Len(res[r].json) = 1 /\ res[r].ended
         /\ calls[r] = 0 /\ pending[r] = "none"
         /\ doc[r] = None /\ RecordsOf(r) = {}
         /\ ~StreamStarted(r)
         /\ pc[r] = "done"
  /\ \A i \in 1..Len(store) : validateURL(store[i].videoUrl)

\* both endpoints have answered a request with an invalid URL
C3_Witness ==
  \E r, q \in Requests :
    /\ req[r].endpoint = "info" /\ ~validateURL(req[r].url) /\ res[r].statusCode = 400
    /\ req[q].endpoint = "download" /\ ~validateURL(req[q].url) /\ res[q].statusCode = 400

\* C4: once a download request has set a header, opened its stream or
\* relayed a byte, its Download record is in the store, and it is still
\* there after the stream completed or failed.
C4_RecordBeforeStream ==
  \A r \in Requests :
    (req[r].endpoint = "download" /\ StreamStarted(r)) =>
      /\ doc[r] # None
      /\ \E i \in 1..Len(store) : store[i] = doc[r][1]

\* one stream failed before its first byte, one failed mid-flight, both
\* records in the store
C4_Witness ==
  \E r, q \in Requests :
    /\ stream[r].state = "errored" /\ res[r].bytes = 0 /\ RecordsOf(r) # {}
    /\ stream[q].state = "errored" /\ res[q].bytes > 0 /\ RecordsOf(q) # {}

\* C5: a remote stream error before any byte gives the client a 500 JSON
\* payload; after at least one byte the client's response is terminated and
\* no JSON payload is sent.
C5_RelayErrorHandling ==
  \A r \in Requests :
    stream[r].state = "errored" =>
      IF res[r].bytes = 0
      THEN res[r].statusCode = 500 /\ Len(res[r].json) = 1
      ELSE res[r].ended /\ res[r].json = <<>>

\* C6: a getInfo call still pending is cut off by its timeout, so every
\* request that waits for the upstream is eventually answered.
C6_PendingCallTimesOut ==
  \A r \in Requests : (pc[r] = "awaitInfo") ~> res[r].headersSent

\* C7 as stated, per request: each download request that was handled has
\* exactly one record.
C7_ExactlyOneRecord ==
  \A r \in Requests :
    (req[r].endpoint = "download" /\ pc[r] = "done") => Cardinality(RecordsOf(r)) = 1

\* a step leaves the store alone or appends one record to it
AppendOnly == store' = store \/ (Len(store') = Len(store) + 1 /\ SubSeq(store', 1, Len(store)) = store)

\* C7 amended: a download request appends at most one record, exactly one
\* once its URL check, its resolution and its save succeeded and none
\* otherwise; no step updates or deletes a record: the store only grows and
\* its records keep their fields.
C7_AppendOnlyAtMostOne ==
  /\ [][AppendOnly]_vars
  /\ [](\A r \in Requests :
          /\ Cardinality(RecordsOf(r)) =
               (IF pc[r] = "awaitSaveAck" \/ stream[r].state # "none" THEN 1 ELSE 0)
          /\ RecordsOf(r) # {} => req[r].endpoint = "download")

\* two download requests, each with its record in the store
C7_Witness ==
  /\ Len(store) = 2
  /\ \A r \in Requests : Cardinality(RecordsOf(r)) = 1 /\ stream[r].state # "none"

\* the quality label's leading integer as the claim counts it: an absent
\* or unparsable label counts as 0
LabelValue(f) ==
  IF f.qualityLabel = None \/ parseInt(f.qualityLabel[1]) = NaN THEN 0
  ELSE parseInt(f.qualityLabel[1])[1]

\* the audio bitrate as the claim counts it: absent counts as 0
BitrateValue(f) == IF f.audioBitrate = None THEN 0 ELSE f.audioBitrate[1]

\* C8: for highest / lowest the selected descriptor is the first, in the
\* original order, of the mp4 descriptors with video and audio whose label
\* value is largest / smallest, and it is null exactly when there is none.
C8_VideoSelection ==
  (fnIn.op = "selectVideo" /\ fnOut.done /\ fnIn.format \in {Some("highest"), Some("lowest")}) =>
    LET fs == fnIn.formats
        cand == {i \in 1..Len(fs) : IsMuxedMp4(fs[i])}
        Best(i) == \A j \in cand :
                     IF fnIn.format = Some("highest")
                     THEN LabelValue(fs[j]) <= LabelValue(fs[i])
                     ELSE LabelValue(fs[j]) >= LabelValue(fs[i])
    IN  /\ (fnOut.selected = None) <=> (cand = {})
        /\ cand # {} =>
             \E i \in cand :
               /\ Best(i) /\ \A j \in cand : Best(j) => i <= j
               /\ fnOut.selected = Some(fs[i])

\* C9: the selected descriptor is an audio-only descriptor of maximum
\* bitrate, an absent bitrate counting as 0, and it is null exactly when
\* there is no audio-only descriptor.
C9_AudioSelection ==
  (fnIn.op = "selectAudio" /\ fnOut.done) =>
    LET fs == fnIn.formats
        cand == {i \in 1..Len(fs) : IsAudioOnly(fs[i])}
    IN  /\ (fnOut.selected = None) <=> (cand = {})
        /\ cand # {} =>
             \E i \in cand :
               /\ fnOut.selected = Some(fs[i])
               /\ \A j \in cand : BitrateValue(fs[j]) <= BitrateValue(fs[i])

\* the file name as the claim has it: "video" when the sanitized title is
\* empty
ClaimedFileName(title, format) ==
  FileName(IF Sanitize(title) = <<>> THEN <<"v", "i", "d", "e", "o">> ELSE Sanitize(title),
           format)

\* C10: the name in Content-Disposition is the sanitized title, the
\* sanitization is idempotent, and an empty result is replaced by "video".
C10_FileNameSanitized ==
  \A r \in Requests :
    res[r].fileName # None =>
      /\ Sanitize(Sanitize(info[r][1].title)) = Sanitize(info[r][1].title)
      /\ res[r].fileName = Some(ClaimedFileName(info[r][1].title, req[r].format))

RECURSIVE SplitAt(_, _, _)
\* s split at every c; cur is the field being read
SplitAt(s, c, cur) ==
  IF s = <<>> THEN <<cur>>
  ELSE IF Head(s) = c THEN <<cur>> \o SplitAt(Tail(s), c, <<>>)
  ELSE SplitAt(Tail(s), c, Append(cur, Head(s)))

AllDigits(field) == field # <<>> /\ \A i \in 1..Len(field) : field[i] \in DigitChars
FieldValue(field) == LeadingDigits(field, 1, 0)
Unpadded(field) == Len(field) = 1 \/ field[1] # "0"

\* C11: formatDuration(s) has three fields H:MM:SS exactly when s >= 3600 and
\* two fields M:SS otherwise, the first field unpadded, the others two
\* digits, minutes and seconds below 60, and the fields add up to s.
C11_DurationFormat ==
  (fnIn.op = "formatDuration" /\ fnOut.done) =>
    LET s == fnIn.seconds
        fields == SplitAt(fnOut.text, ":", <<>>)
        n == Len(fields)
    IN  /\ n \in {2, 3}
        /\ (n = 3) <=> (s >= 3600)
        /\ \A i \in 1..n : AllDigits(fields[i])
        /\ Unpadded(fields[1])
        /\ \A i \in 2..n : Len(fields[i]) = 2 /\ FieldValue(fields[i]) < 60
        /\ IF n = 3
           THEN 3600 * FieldValue(fields[1]) + 60 * FieldValue(fields[2])
                  + FieldValue(fields[3]) = s
           ELSE 60 * FieldValue(fields[1]) + FieldValue(fields[2]) = s
        /\ s = 3661 => fnOut.text = <<"1", ":", "0", "1", ":", "0", "1">>
        /\ s = 59 => fnOut.text = <<"0", ":", "5", "9">>
        /\ s = 0 => fnOut.text = <<"0", ":", "0", "0">>

\* 3661 seconds formatted as 1:01:01
C11_Witness ==
  /\ fnIn.op = "formatDuration" /\ fnOut.done /\ fnIn.seconds = 3661
  /\ fnOut.text = <<"1", ":", "0", "1", ":", "0", "1">>

\* C12: the wait before the k-th retry is 2000 * 2^(k-1) ms: 2 s, 4 s, ...
C12_BackoffDelays ==
  \A r \in Requests :
    \A k \in 1..Len(delays[r]) : delays[r][k] = BackoffBase * Pow2(k - 1)

\* C13 as stated: a resolution issues at most maxAttemptCycles x
\* identityCount calls, and exactly that many when every call fails.
C13_NineCalls ==
  \A r \in Requests :
    /\ calls[r] <= MaxAttemptCycles * IdentityCount
    /\ ResolutionFailed(r) => calls[r] = MaxAttemptCycles * IdentityCount

\* C13 amended: a resolution issues at most 3 calls; when every call fails
\* it issues exactly 3 if the failures all carry the sign-in signature, and
\* otherwise stops with the first failure of another kind.
C13_ThreeCalls ==
  \A r \in Requests :
    /\ calls[r] <= 3
    /\ ResolutionFailed(r) =>
         /\ calls[r] = Len(outcomes[r])
         /\ (\A i \in 1..Len(outcomes[r]) : IncludesSignIn(outcomes[r][i])) => calls[r] = 3
         /\ (\E i \in 1..Len(outcomes[r]) : ~IncludesSignIn(outcomes[r][i])) =>
              ~IncludesSignIn(outcomes[r][calls[r]])

\* three sign-in failures: the budget used up
C13_Witness ==
  \E r \in Requests :
    /\ ResolutionFailed(r) /\ calls[r] = 3
    /\ \A i \in 1..3 : IncludesSignIn(outcomes[r][i])

\* the handler is past its retry loop
PastLoop(r) ==
  \/ pc[r] \in {"afterLoop", "awaitSave", "awaitSaveAck", "streaming"}
  \/ doc[r] # None
  \/ StreamStarted(r)
  \/ (res[r].json # <<>> /\ res[r].statusCode = 200)

\* the resolution of a request is over
ResolutionOver(r) ==
  /\ req[r].endpoint # "none" /\ validateURL(req[r].url)
  /\ pc[r] \notin {"awaitInfo", "awaitBackoff"}

\* C14: a resolution that is over has a result or an error, never both and
\* never neither: the loop is not left with info unset, and the code after
\* the loop runs only with info set.
C14_OneOutcome ==
  \A r \in Requests :
    /\ pc[r] # "afterLoop"
    /\ ~(Resolved(r) /\ ResolutionFailed(r))
    /\ ResolutionOver(r) => (Resolved(r) \/ ResolutionFailed(r))
    /\ PastLoop(r) => Resolved(r)
    /\ ResolutionFailed(r) => ~PastLoop(r)
    /\ (pc[r] = "awaitBackoff") => retries[r] > 0

\* a resolution that succeeded on its last attempt and one that failed on it
C14_Witness ==
  \E r, q \in Requests :
    /\ Resolved(r) /\ PastLoop(r) /\ retries[r] = 1
    /\ ResolutionFailed(q) /\ retries[q] = 1

\* the relay's state in the specification's state machine (4.4); a relay
\* whose source failed mid-flight while res is still open has not left Flowing
RelayState(r) ==
  IF stream[r].state = "none" THEN "Idle"
  ELSE IF stream[r].state = "ended" THEN "Completed"
  ELSE IF stream[r].state = "open"
       THEN (IF res[r].bytes = 0 THEN "StreamOpened" ELSE "Flowing")
  ELSE IF res[r].bytes = 0 THEN "FailedBeforeFirstByte"
  ELSE IF res[r].ended THEN "Aborted"
  ELSE "Flowing"

TerminalRelayStates == {"Completed", "Aborted", "FailedBeforeFirstByte"}

\* C15: a relay that has opened its stream eventually is Completed, Aborted
\* or FailedBeforeFirstByte, with the client's response closed.
C15_RelayTerminates ==
  \A r \in Requests :
    (stream[r].state # "none") ~> (RelayState(r) \in TerminalRelayStates /\ res[r].ended)

\* what belongs to one request alone
Local(r) ==
  <<req[r], pc[r], retries[r], pending[r], calls[r], outcomes[r], delays[r], info[r],
    thrown[r], res[r], stream[r]>>

\* a step changes the request-local state of at most one request
OneRequestPerStep ==
  \A r, q \in Requests : (r # q /\ Local(r)' # Local(r)) => Local(q)' = Local(q)

\* the request-local state of r as its own inputs and upstream answers fix it
OwnHistory(r) ==
  /\ retries[r] = (IF req[r].endpoint # "none" /\ validateURL(req[r].url)
                   THEN MaxRetries - Len(delays[r]) ELSE 0)
  /\ calls[r] = Len(outcomes[r]) + (IF pending[r] # "none" THEN 1 ELSE 0)
  /\ Len(delays[r]) = Cardinality({i \in 1..Len(outcomes[r]) :
                                     /\ IncludesSignIn(outcomes[r][i])
                                     /\ i < MaxRetries})
  /\ Resolved(r) => LastOutcome(r) = "ok"
  /\ stream[r].state # "none" =>
       /\ stream[r].format =
            (IF req[r].format = Some("audio") THEN SelectAudio(info[r][1].formats)
             ELSE SelectVideo(info[r][1].formats, req[r].format))
       /\ res[r].fileName = Some(FileName(Sanitize(info[r][1].title), req[r].format))
  /\ (stream[r].state = "none" /\ pc[r] = "done") =>
       /\ Len(res[r].json) = 1
       /\ res[r].statusCode =
            (IF ~validateURL(req[r].url) THEN 400 ELSE IF Resolved(r) /\ thrown[r] = None
             THEN 200 ELSE 500)

\* the record of r in the store is r's own document, wherever it was appended
OwnRecord(r) ==
  (pc[r] = "awaitSaveAck" \/ stream[r].state # "none") =>
    \E i \in 1..Len(store) :
      /\ store[i] = doc[r][1]
      /\ store[i].videoUrl = req[r].url
      /\ store[i].videoTitle = info[r][1].title

\* C16: under every interleaving a step touches the retry counter, info,
\* selected descriptor and response of one request only, each request's
\* values are those its own inputs and upstream answers give, and each
\* request's record is in the store whatever the order of the writes.
C16_RequestsIndependent ==
  /\ [][OneRequestPerStep]_vars
  /\ [](\A r \in Requests : OwnHistory(r) /\ OwnRecord(r))

\* both requests stream their own selection, one after a retry and one
\* without, and the document built last was written first
C16_Witness ==
  /\ Len(store) = 2 /\ store[1].id > store[2].id
  /\ \E r, q \in Requests :
       /\ stream[r].state # "none" /\ retries[r] = MaxRetries - 1
       /\ stream[q].state # "none" /\ retries[q] = MaxRetries
       /\ stream[r].format # stream[q].format

\* the class a started download is served as: by the branch of line 149 its
\* headers come from (the .mp3 name and no cache headers, which a later JSON
\* error payload leaves in place), and for video by the direction of the
\* selection and the quality hint
ServedClass(r) ==
  IF ~res[r].noCache /\ res[r].fileName = Some(FileName(Sanitize(info[r][1].title), Some("audio")))
  THEN Some("audio")
  ELSE IF /\ stream[r].quality \in {"none", "highestvideo"}
          /\ stream[r].format = SelectVideo(info[r][1].formats, Some("highest"))
  THEN Some("highest")
  ELSE Some("lowest")

\* C17: the class in the record of a started download is the class it is
\* served as (an omitted format: highest for both), and a download whose
\* format is outside the three classes never starts.
C17_RecordedClassServed ==
  \A r \in Requests :
    stream[r].state # "none" =>
      /\ doc[r][1].format \in {Some("highest"), Some("lowest"), Some("audio")}
      /\ req[r].format \in {None, Some("highest"), Some("lowest"), Some("audio")}
      /\ doc[r][1].format = ServedClass(r)
      /\ req[r].format = None => ServedClass(r) = Some("highest")

\* once res is committed, by a JSON payload or by the stream's headers, no
\* JSON payload follows, and after a JSON payload nothing is relayed
NoSecondResponse ==
  \A r \in Requests :
    /\ res[r].headersSent => res'[r].json = res[r].json
    /\ res[r].json # <<>> => res'[r] = res[r]

\* C18: a request gets at most one JSON payload, none once stream headers
\* or bytes went out, and no stream bytes after a JSON payload.
C18_AtMostOneResponse ==
  /\ [][NoSecondResponse]_vars
  /\ [](\A r \in Requests :
          /\ Len(res[r].json) <= 1
          /\ res[r].json # <<>> => (res[r].bytes = 0 /\ res[r].ended)
          /\ res[r].bytes > 0 => res[r].json = <<>>)

\* a stream that failed after bytes were relayed and one that failed before
C18_Witness ==
  \E r, q \in Requests :
    /\ stream[r].state = "errored" /\ res[r].bytes > 0 /\ res[r].json = <<>>
    /\ stream[q].state = "errored" /\ res[q].bytes = 0 /\ Len(res[q].json) = 1
====
